---- MODULE Spec2Model ----
(***************************************************************************)
(* Model of the Steam trend analysis core: the ETL pipeline of             *)
(* SteamDataLoader.prepare_dataframe (src/src/data_loader.py) and the      *)
(* guarded OLS call SteamAnalytics.perform_linear_regression               *)
(* (src/src/analytics.py).                                                 *)
(*                                                                         *)
(* Cell values are records [k, n, d, s, items]: k is the runtime type,     *)
(* n/d a rational number (the float of a "num" cell), s the text of a      *)
(* "str" cell and items the elements (keys) of a "list" ("dict") cell.     *)
(***************************************************************************)
EXTENDS Integers, Sequences, FiniteSets, TLC

VARIABLES
    file_exists,   \* os.path.exists(self.file_path)
    source,        \* content of the file: [shape, recs]
    temp_df,       \* local temp_df of prepare_dataframe
    df,            \* SteamDataLoader.df
    pc,            \* position inside prepare_dataframe
    exc,           \* exception that left prepare_dataframe ("" if none)
    reads,         \* pd.read_json calls made so far, in order
    reg_df,        \* argument df of perform_linear_regression
    model_df,      \* local model_df of perform_linear_regression
    reg_pc,        \* position inside perform_linear_regression
    reg_ret,       \* text returned by perform_linear_regression
    reg_exc,       \* exception that left perform_linear_regression
    fit_started,   \* sm.OLS(y, X).fit() has been entered
    tag_data,      \* argument tag_data of process_tags_safely
    tag_ret,       \* value returned by process_tags_safely
    tag_pc,        \* position inside process_tags_safely
    tag_exc,       \* exception that left process_tags_safely ("" if none)
    app_pc,        \* position inside main (app.py)
    app_df,        \* df of main: the table load_and_clean_data handed out
    year_range,    \* year_range of main
    base_df,       \* base_df of main
    price_range,   \* price_range of the first tab
    tab1_df        \* tab1_df of the first tab

loaderVars == <<file_exists, source, temp_df, df, pc, exc, reads>>
regVars == <<reg_df, model_df, reg_pc, reg_ret, reg_exc, fit_started>>
tagVars == <<tag_data, tag_ret, tag_pc, tag_exc>>
appVars == <<app_pc, app_df, year_range, base_df, price_range, tab1_df>>
vars == <<loaderVars, regVars, tagVars, appVars>>

(***************************************************************************)
(* Bounds of the model.                                                    *)
(***************************************************************************)
MaxRecords == 2

(***************************************************************************)
(* Values.                                                                 *)
(***************************************************************************)
Val(k, n, d, s, items) == [k |-> k, n |-> n, d |-> d, s |-> s, items |-> items]

Absent == Val("absent", 0, 1, "", <<>>)
Null == Val("null", 0, 1, "", <<>>)
NaN == Val("nan", 0, 1, "", <<>>)
NaT == Val("nat", 0, 1, "", <<>>)
Inf == Val("inf", 1, 1, "", <<>>)
Str(s) == Val("str", 0, 1, s, <<>>)
Dict(keys) == Val("dict", 0, 1, "", keys)
List(items) == Val("list", 0, 1, "", items)
Date(y, m, dd) == Val("date", (y * 10000) + (m * 100) + dd, 1, "", <<>>)

Abs(x) == IF x < 0 THEN -x ELSE x

RECURSIVE GCD(_, _)
GCD(a, b) == IF b = 0 THEN a ELSE GCD(b, a % b)

\* the rational n/d in lowest terms with a positive denominator
Num(n, d) ==
    LET sn == IF d < 0 THEN -n ELSE n
        sd == Abs(d)
        g == GCD(Abs(sn), sd)
    IN  Val("num", sn \div g, sd \div g, "", <<>>)

IsNum(x) == x.k = "num"
IsMissing(x) == x.k \in {"null", "nan", "nat"}

Add(a, b) == Num((a.n * b.d) + (b.n * a.d), a.d * b.d)
Div(a, b) == Num(a.n * b.d, a.d * b.n)
Leq(a, b) == a.n * b.d <= b.n * a.d
Zero == Num(0, 1)
One == Num(1, 1)

(***************************************************************************)
(* Text parsing, character by character.                                   *)
(***************************************************************************)
Digits == "0123456789"
Char(s, i) == SubSeq(s, i, i)
IsDigit(c) == \E i \in 1..Len(Digits) : Char(Digits, i) = c
DigitVal(c) == (CHOOSE i \in 1..Len(Digits) : Char(Digits, i) = c) - 1
AllDigits(s) == Len(s) > 0 /\ \A i \in 1..Len(s) : IsDigit(Char(s, i))

RECURSIVE NatOf(_)
NatOf(s) ==
    IF Len(s) = 0 THEN 0
    ELSE (NatOf(SubSeq(s, 1, Len(s) - 1)) * 10) + DigitVal(Char(s, Len(s)))

RECURSIVE Pow10(_)
Pow10(k) == IF k = 0 THEN 1 ELSE 10 * Pow10(k - 1)

DotAt(s) == {i \in 1..Len(s) : Char(s, i) = "."}

\* unsigned decimal literal: digits, or digits "." digits
IsUnsigned(s) ==
    \/ AllDigits(s)
    \/ /\ Cardinality(DotAt(s)) = 1
       /\ LET p == CHOOSE i \in DotAt(s) : TRUE
          IN  AllDigits(SubSeq(s, 1, p - 1)) /\ AllDigits(SubSeq(s, p + 1, Len(s)))

UnsignedOf(s) ==
    IF AllDigits(s) THEN Num(NatOf(s), 1)
    ELSE LET p == CHOOSE i \in DotAt(s) : TRUE
             frac == SubSeq(s, p + 1, Len(s))
         IN  Num((NatOf(SubSeq(s, 1, p - 1)) * Pow10(Len(frac))) + NatOf(frac),
                 Pow10(Len(frac)))

Unsign(s) == IF Len(s) > 0 /\ Char(s, 1) \in {"-", "+"} THEN SubSeq(s, 2, Len(s)) ELSE s

IsNumericText(s) == IsUnsigned(Unsign(s))

NumberOfText(s) ==
    LET u == UnsignedOf(Unsign(s))
    IN  IF Char(s, 1) = "-" THEN Num(-u.n, u.d) ELSE u

IsLeap(y) == (y % 4 = 0 /\ y % 100 # 0) \/ y % 400 = 0

DaysIn(y, m) ==
    IF m = 2 THEN (IF IsLeap(y) THEN 29 ELSE 28)
    ELSE IF m \in {4, 6, 9, 11} THEN 30 ELSE 31

\* ISO calendar date YYYY-MM-DD
IsDateText(s) ==
    /\ Len(s) = 10
    /\ Char(s, 5) = "-" /\ Char(s, 8) = "-"
    /\ AllDigits(SubSeq(s, 1, 4)) /\ AllDigits(SubSeq(s, 6, 7)) /\ AllDigits(SubSeq(s, 9, 10))
    /\ NatOf(SubSeq(s, 6, 7)) \in 1..12
    /\ NatOf(SubSeq(s, 9, 10)) \in 1..DaysIn(NatOf(SubSeq(s, 1, 4)), NatOf(SubSeq(s, 6, 7)))

DateOfText(s) == Date(NatOf(SubSeq(s, 1, 4)), NatOf(SubSeq(s, 6, 7)), NatOf(SubSeq(s, 9, 10)))

(***************************************************************************)
(* Column coercions of pandas, per cell.                                   *)
(***************************************************************************)
\* pd.to_numeric(column, errors='coerce')
ToNumeric(x) ==
    IF IsNum(x) THEN x
    ELSE IF x.k = "str" /\ IsNumericText(x.s) THEN NumberOfText(x.s)
    ELSE NaN

\* Series.fillna(0)
FillNa0(x) == IF IsMissing(x) THEN Zero ELSE x

\* mutant: the parse without the imputation
CoerceNumericCell_noimpute(x) == ToNumeric(x)

\* pd.to_numeric(...).fillna(0), data_loader.py line 99
CoerceNumericCell(x) == FillNa0(ToNumeric(x))

\* pd.to_datetime(column, errors='coerce') on text and missing cells
ToDatetime(x) ==
    IF x.k = "date" THEN x
    ELSE IF x.k = "str" /\ IsDateText(x.s) THEN DateOfText(x.s)
    ELSE NaT

\* mutant: only missing cells are replaced
NormalizeTagCell_keeptext(x) == IF x.k \in {"dict", "list", "str"} THEN x ELSE Dict(<<>>)

NormalizeTagCell_nullonly(x) == IF IsMissing(x) THEN Dict(<<>>) ELSE x

\* lambda x: x if isinstance(x, (dict, list)) else {}
NormalizeTagCell(x) == IF x.k \in {"dict", "list"} THEN x ELSE Dict(<<>>)

\* Series.replace(0, 1)
Replace01(x) == IF x = Zero THEN One ELSE x

\* self.df['positive'] + self.df['negative']
TotalReviews(pos, neg) == Add(pos, neg)

\* self.df['positive'] / self.df['total_reviews'].replace(0, 1)
ScoreRatio(pos, total) == Div(pos, Replace01(total))

(***************************************************************************)
(* Tables (pandas DataFrame): a set of column names and a sequence of rows, *)
(* each row a function from the column names to cells.                     *)
(***************************************************************************)
Table(cols, rows) == [none |-> FALSE, cols |-> cols, rows |-> rows]
None == [none |-> TRUE, cols |-> {}, rows |-> <<>>]

NRows(t) == Len(t.rows)

RowsOf(t) == 1..Len(t.rows)

\* t[c] = vals: assignment of a whole column, one value per row
SetCol(t, c, vals) ==
    Table(t.cols \cup {c},
          [i \in RowsOf(t) |->
              [x \in t.cols \cup {c} |-> IF x = c THEN vals[i] ELSE t.rows[i][x]]])

\* t[c].apply(...): the cells of column c, in row order
Column(t, c) == [i \in RowsOf(t) |-> t.rows[i][c]]

\* t[cols]: projection on a list of columns
Project(t, cols) ==
    Table(cols, [i \in 1..Len(t.rows) |-> [x \in cols |-> t.rows[i][x]]])

(***************************************************************************)
(* The source file.                                                        *)
(***************************************************************************)
important_columns ==
    {"name", "release_date", "positive", "negative", "price",
     "average_playtime_forever", "genres", "tags"}

cols_to_numeric == {"price", "positive", "negative", "average_playtime_forever"}

\* fields a raw record may carry: the allow-listed ones and one that is not
Fields == important_columns \cup {"required_age"}

\* the order in which a record lists its fields
FieldOrder ==
    <<"name", "release_date", "price", "positive", "negative",
      "average_playtime_forever", "tags", "genres", "required_age">>

BaseRecord ==
    [f \in Fields |->
        CASE f = "name" -> Str("Test Game A")
          [] f = "release_date" -> Str("2020-01-01")
          [] f = "positive" -> Num(1, 1)
          [] f = "negative" -> Num(1, 1)
          [] f = "price" -> Str("19.99")
          [] f = "average_playtime_forever" -> Num(60, 1)
          [] f = "genres" -> List(<<"Action", "Indie">>)
          [] f = "tags" -> Dict(<<"Action", "Indie">>)
          [] OTHER -> Num(0, 1)]

With(r, f, v) == [r EXCEPT ![f] = v]

RawDates == {Absent, Null, Str("invalid-date"), Str("2030-02-29"), Str("2024-02-29")}
RawNumbers == {Absent, Null, Str("-5.00"), Str("free"), Num(-2, 1)}
RawCounts == {Num(0, 1), Num(1, 2)}
RawTags == {Absent, Null, List(<<>>), List(<<"Indie">>), Str("{'Action': 100}"), Num(7, 1)}
RawGenres == {Absent, Null, List(<<>>), Str("Action"), Num(7, 1)}

\* the raw records of the model: the reference record with one field group varied
RecordSet ==
    {BaseRecord}
    \cup {With(BaseRecord, "release_date", v) : v \in RawDates}
    \cup {With(BaseRecord, c, v) : c \in cols_to_numeric, v \in RawNumbers}
    \cup {With(With(BaseRecord, "positive", p), "negative", n) : p \in RawCounts, n \in RawCounts}
    \cup {With(BaseRecord, "tags", v) : v \in RawTags}
    \cup {With(BaseRecord, "genres", v) : v \in RawGenres}
    \cup {With(BaseRecord, "name", Absent)}

RECURSIVE SeqsUpTo(_, _)
SeqsUpTo(S, n) ==
    IF n = 0 THEN {<<>>}
    ELSE LET prev == SeqsUpTo(S, n - 1)
         IN  prev \cup {Append(q, x) : q \in {p \in prev : Len(p) = n - 1}, x \in S}

\* "index": mapping id -> record; "array": list of records; "malformed": no JSON
Source(shape, recs) == [shape |-> shape, recs |-> recs]

Sources ==
    {Source("index", q) : q \in SeqsUpTo(RecordSet, MaxRecords)}
    \cup {Source("array", q) : q \in SeqsUpTo({BaseRecord, With(BaseRecord, "tags", Null)}, MaxRecords)}
    \cup {Source("malformed", <<>>)}

NoSource == Source("none", <<>>)

\* union of the keys of the records
KeysOf(recs) == {f \in Fields : \E i \in 1..Len(recs) : recs[i][f] # Absent}

\* a record as a row over cols: a key the record lacks is a missing cell
RowOf(rec, cols) == [c \in cols |-> IF rec[c] = Absent THEN NaN ELSE rec[c]]

RecordsTable(recs) ==
    Table(KeysOf(recs), [i \in 1..Len(recs) |-> RowOf(recs[i], KeysOf(recs))])

Raised(e) == [exc |-> e, table |-> None]
Parsed(t) == [exc |-> "", table |-> t]

\* pd.read_json(path, orient='index'): DataFrame.from_dict(obj, orient='index')
ReadJsonIndex(exists, src) ==
    IF ~exists THEN Raised("FileNotFoundError")
    ELSE IF src.shape = "malformed" THEN Raised("ValueError")
    ELSE IF src.shape = "array" /\ Len(src.recs) > 0 THEN Raised("AttributeError")
    ELSE Parsed(RecordsTable(src.recs))

\* pd.read_json(path): DataFrame(obj), a mapping read column by column
ReadJsonColumns(exists, src) ==
    IF ~exists THEN Raised("FileNotFoundError")
    ELSE IF src.shape = "malformed" THEN Raised("ValueError")
    ELSE IF src.shape = "array" THEN Parsed(RecordsTable(src.recs))
    ELSE LET ids == {ToString(i) : i \in 1..Len(src.recs)}
             keys == SelectSeq(FieldOrder, LAMBDA f : f \in KeysOf(src.recs))
         IN  Parsed(Table(ids,
                 [r \in 1..Len(keys) |->
                     [c \in ids |->
                         LET i == CHOOSE j \in 1..Len(src.recs) : ToString(j) = c
                         IN  IF src.recs[i][keys[r]] = Absent THEN NaN
                             ELSE src.recs[i][keys[r]]]]))

(***************************************************************************)
(* SteamDataLoader.prepare_dataframe, statement by statement.              *)
(***************************************************************************)
\* mutant: the existence check never fails
SourceMissing_never(exists) == FALSE

\* _validate_source: raise unless os.path.exists(self.file_path)
SourceMissing(exists) == ~exists

\* self._validate_source()
ValidateSource ==
    /\ pc = "validate"
    /\ IF SourceMissing(file_exists)
       THEN pc' = "raised" /\ exc' = "FileNotFoundError"
       ELSE pc' = "ingest" /\ exc' = exc
    /\ UNCHANGED <<file_exists, source, temp_df, df, reads>>
    /\ UNCHANGED <<regVars, tagVars, appVars>>

\* exceptions the except clause of the ingestion catches
CaughtByIngest(e) == e = "ValueError"

\* try: temp_df = pd.read_json(self.file_path, orient='index')
IngestIndex ==
    /\ pc = "ingest"
    /\ LET r == ReadJsonIndex(file_exists, source)
       IN  /\ reads' = Append(reads, "index")
           /\ IF r.exc = ""
              THEN pc' = "project" /\ temp_df' = r.table /\ exc' = exc
              ELSE IF CaughtByIngest(r.exc)
              THEN pc' = "fallback" /\ temp_df' = temp_df /\ exc' = exc
              ELSE pc' = "raised" /\ temp_df' = temp_df /\ exc' = r.exc
    /\ UNCHANGED <<file_exists, source, df>>
    /\ UNCHANGED <<regVars, tagVars, appVars>>

\* except ValueError: temp_df = pd.read_json(self.file_path)
IngestFallback ==
    /\ pc = "fallback"
    /\ LET r == ReadJsonColumns(file_exists, source)
       IN  /\ reads' = Append(reads, "columns")
           /\ IF r.exc = ""
              THEN pc' = "project" /\ temp_df' = r.table /\ exc' = exc
              ELSE pc' = "raised" /\ temp_df' = temp_df /\ exc' = r.exc
    /\ UNCHANGED <<file_exists, source, df>>
    /\ UNCHANGED <<regVars, tagVars, appVars>>

\* [c for c in important_columns if c in temp_df.columns]
ExistingCols(t) == {c \in important_columns : c \in t.cols}

\* self.df = temp_df[existing_cols].copy()
Projection ==
    /\ pc = "project"
    /\ df' = Project(temp_df, ExistingCols(temp_df))
    /\ pc' = "dates"
    /\ UNCHANGED <<file_exists, source, temp_df, exc, reads>>
    /\ UNCHANGED <<regVars, tagVars, appVars>>

\* self.df['release_date'] = pd.to_datetime(self.df['release_date'], errors='coerce')
ConvertDates ==
    /\ pc = "dates"
    /\ IF "release_date" \in df.cols
       THEN /\ df' = SetCol(df, "release_date",
                        [i \in RowsOf(df) |-> ToDatetime(Column(df, "release_date")[i])])
            /\ pc' = "numeric" /\ exc' = exc
       ELSE /\ df' = df
            /\ pc' = "raised" /\ exc' = "KeyError"
    /\ UNCHANGED <<file_exists, source, temp_df, reads>>
    /\ UNCHANGED <<regVars, tagVars, appVars>>

\* one pass of the loop body: if col in self.df.columns: coerce and impute
CoerceColumn(t, col) ==
    IF col \in t.cols THEN SetCol(t, col, [i \in RowsOf(t) |-> CoerceNumericCell(Column(t, col)[i])]) ELSE t

\* for col in cols_to_numeric: ...
ConvertNumeric ==
    /\ pc = "numeric"
    /\ df' = CoerceColumn(CoerceColumn(CoerceColumn(CoerceColumn(df,
                 "price"), "positive"), "negative"), "average_playtime_forever")
    /\ pc' = "tags"
    /\ UNCHANGED <<file_exists, source, temp_df, exc, reads>>
    /\ UNCHANGED <<regVars, tagVars, appVars>>

\* if 'tags' in self.df.columns: apply the lambda, else a column of {}
TagsColumn(t) ==
    IF "tags" \in t.cols
    THEN SetCol(t, "tags", [i \in RowsOf(t) |-> NormalizeTagCell(Column(t, "tags")[i])])
    ELSE SetCol(t, "tags", [i \in RowsOf(t) |-> Dict(<<>>)])

NormalizeTags ==
    /\ pc = "tags"
    /\ df' = TagsColumn(df)
    /\ pc' = "genres"
    /\ UNCHANGED <<file_exists, source, temp_df, exc, reads>>
    /\ UNCHANGED <<regVars, tagVars, appVars>>

\* if 'genres' not in self.df.columns: a column of []
GenresColumn(t) ==
    IF "genres" \notin t.cols THEN SetCol(t, "genres", [i \in RowsOf(t) |-> List(<<>>)]) ELSE t

DefaultGenres ==
    /\ pc = "genres"
    /\ df' = GenresColumn(df)
    /\ pc' = "features"
    /\ UNCHANGED <<file_exists, source, temp_df, exc, reads>>
    /\ UNCHANGED <<regVars, tagVars, appVars>>

\* total_reviews, then score_ratio, computed column-wise
WithFeatures(t) ==
    LET t1 == SetCol(t, "total_reviews",
                     [i \in RowsOf(t) |->
                         TotalReviews(Column(t, "positive")[i], Column(t, "negative")[i])])
    IN  SetCol(t1, "score_ratio",
               [i \in RowsOf(t1) |->
                   ScoreRatio(Column(t1, "positive")[i], Column(t1, "total_reviews")[i])])

\* lines 118-123: the two derived columns and return self.df
FeatureEngineering ==
    /\ pc = "features"
    /\ IF {"positive", "negative"} \subseteq df.cols
       THEN df' = WithFeatures(df) /\ pc' = "returned" /\ exc' = exc
       ELSE df' = df /\ pc' = "raised" /\ exc' = "KeyError"
    /\ UNCHANGED <<file_exists, source, temp_df, reads>>
    /\ UNCHANGED <<regVars, tagVars, appVars>>

NoError == [type |-> "", msg |-> ""]

RegIdle ==
    /\ reg_df = None /\ model_df = None /\ reg_pc = "idle"
    /\ reg_ret = "" /\ reg_exc = NoError /\ fit_started = FALSE

\* a fresh loader on a path that does not exist, or on a file with some content
TagIdle == tag_data = Null /\ tag_ret = Null /\ tag_pc = "idle" /\ tag_exc = ""

NoRange == <<0, 0>>

AppIdle ==
    /\ app_pc = "idle" /\ app_df = None /\ year_range = NoRange
    /\ base_df = None /\ price_range = NoRange /\ tab1_df = None

Init ==
    /\ \/ file_exists = FALSE /\ source = NoSource
       \/ file_exists = TRUE /\ source \in Sources
    /\ temp_df = None
    /\ df = None
    /\ pc = "validate"
    /\ exc = ""
    /\ reads = <<>>
    /\ RegIdle
    /\ TagIdle
    /\ AppIdle

Next ==
    \/ ValidateSource
    \/ IngestIndex
    \/ IngestFallback
    \/ Projection
    \/ ConvertDates
    \/ ConvertNumeric
    \/ NormalizeTags
    \/ DefaultGenres
    \/ FeatureEngineering

Spec == Init /\ [][Next]_vars

(***************************************************************************)
(* SteamAnalytics.perform_linear_regression, statement by statement.       *)
(***************************************************************************)
required_cols == {"score_ratio", "price", "average_playtime_forever"}

MinSample == 30

SchemaErrorMsg == "Fehler: Datensatz fehlen erforderliche Spalten für die Regression."
SampleSizeMsg == "Datensatz zu klein für eine statistisch valide Inferenzanalyse (n < 30)."
ComputationErrorPrefix == "Berechnungsfehler im OLS-Modell: "

\* model.summary().as_text(): the title line and the rows of the coefficient table
SummaryText ==
    "OLS Regression Results / Dep. Variable: score_ratio / R-squared: / F-statistic: / "
    \o "coef std err t P>|t| [0.025 0.975] / const / price / average_playtime_forever"

\* m in text
Contains(text, m) ==
    \E i \in 1..(Len(text) - Len(m) + 1) : SubSeq(text, i, i + Len(m) - 1) = m

\* mutant: any() in place of all()
SchemaOk_any(cols) == \E c \in required_cols : c \in cols

\* all(col in df.columns for col in required_cols)
SchemaOk(cols) == \A c \in required_cols : c \in cols

\* DataFrame.dropna(): the rows without a missing cell, in order
DropNa(t) ==
    Table(t.cols, SelectSeq(t.rows, LAMBDA row : \A c \in t.cols : ~IsMissing(row[c])))

\* mutant: the rows of the input table are counted
SampleSize_input(input, cleaned) == NRows(input)

\* the number the sample-size check compares
SampleSize(input, cleaned) == NRows(cleaned)

\* if len(model_df) < 30
TooSmall(n) == n < MinSample

\* what sm.add_constant / sm.OLS(y, X).fit() / summary() raise on model_df
FitError(t) ==
    IF \E i \in 1..Len(t.rows) : \E c \in t.cols : t.rows[i][c].k \notin {"num", "inf"}
    THEN [type |-> "ValueError",
          msg |-> "Pandas data cast to numpy dtype of object. Check input data with np.asarray(data)."]
    ELSE IF \E i \in 1..Len(t.rows) :
                \E c \in {"price", "average_playtime_forever"} : t.rows[i][c].k = "inf"
    THEN [type |-> "MissingDataError", msg |-> "exog contains inf or nans"]
    ELSE NoError

\* mutant: except ValueError
CaughtByRegression_narrow(e) == e.type = "ValueError"

\* except Exception as e: every exception class but the BaseException-only ones
CaughtByRegression(e) == e.type \notin {"KeyboardInterrupt", "SystemExit", "GeneratorExit"}

\* mutant: the bare text of the exception is returned
ComputationErrorMsg_bare(e) == e.msg

\* f"Berechnungsfehler im OLS-Modell: {str(e)}"
ComputationErrorMsg(e) == ComputationErrorPrefix \o e.msg

\* lines 57-63: the schema check
SchemaCheck ==
    /\ reg_pc = "schema"
    /\ IF SchemaOk(reg_df.cols)
       THEN reg_pc' = "clean" /\ reg_ret' = reg_ret
       ELSE reg_pc' = "returned" /\ reg_ret' = SchemaErrorMsg
    /\ UNCHANGED <<reg_df, model_df, reg_exc, fit_started>>
    /\ UNCHANGED <<loaderVars, tagVars, appVars>>

\* model_df = df[required_cols].dropna()
Clean ==
    /\ reg_pc = "clean"
    /\ IF required_cols \subseteq reg_df.cols
       THEN /\ model_df' = DropNa(Project(reg_df, required_cols))
            /\ reg_pc' = "size" /\ reg_exc' = reg_exc
       ELSE /\ model_df' = model_df
            /\ reg_pc' = "raised" /\ reg_exc' = [type |-> "KeyError", msg |-> "not in index"]
    /\ UNCHANGED <<reg_df, reg_ret, fit_started>>
    /\ UNCHANGED <<loaderVars, tagVars, appVars>>

\* lines 71-73: the sample-size check
SizeCheck ==
    /\ reg_pc = "size"
    /\ IF TooSmall(SampleSize(reg_df, model_df))
       THEN reg_pc' = "returned" /\ reg_ret' = SampleSizeMsg
       ELSE reg_pc' = "fit" /\ reg_ret' = reg_ret
    /\ UNCHANGED <<reg_df, model_df, reg_exc, fit_started>>
    /\ UNCHANGED <<loaderVars, tagVars, appVars>>

\* lines 75-98: the body of the try block
Fit ==
    /\ reg_pc = "fit"
    /\ fit_started' = TRUE
    /\ LET e == FitError(model_df)
       IN  IF e = NoError
           THEN reg_pc' = "returned" /\ reg_ret' = SummaryText /\ reg_exc' = reg_exc
           ELSE reg_pc' = "except" /\ reg_ret' = reg_ret /\ reg_exc' = e
    /\ UNCHANGED <<reg_df, model_df>>
    /\ UNCHANGED <<loaderVars, tagVars, appVars>>

\* lines 100-102: the except clause
HandleFitError ==
    /\ reg_pc = "except"
    /\ IF CaughtByRegression(reg_exc)
       THEN reg_pc' = "returned" /\ reg_ret' = ComputationErrorMsg(reg_exc) /\ reg_exc' = NoError
       ELSE reg_pc' = "raised" /\ reg_ret' = reg_ret /\ reg_exc' = reg_exc
    /\ UNCHANGED <<reg_df, model_df, fit_started>>
    /\ UNCHANGED <<loaderVars, tagVars, appVars>>

(***************************************************************************)
(* Input tables of the regression: a run of equal rows followed by a short *)
(* run of rows of another kind, over several column sets.                  *)
(***************************************************************************)
MaxRows == 31
MaxTail == 2

RegCols == required_cols \cup {"name"}

RegRow(score, price, playtime, name) ==
    [c \in RegCols |->
        CASE c = "score_ratio" -> score
          [] c = "price" -> price
          [] c = "average_playtime_forever" -> playtime
          [] OTHER -> name]

RowKinds ==
    {RegRow(Num(1, 2), Num(10, 1), Num(100, 1), Str("A")),
     RegRow(NaN, Num(10, 1), Num(100, 1), Str("B")),
     RegRow(Num(1, 2), NaN, Num(100, 1), Str("C")),
     RegRow(Num(1, 2), Num(10, 1), NaN, Str("D")),
     RegRow(Num(1, 1), Num(20, 1), Num(200, 1), Null),
     RegRow(Num(1, 2), Inf, Num(100, 1), Str("F")),
     RegRow(Num(1, 2), Str("free"), Num(100, 1), Str("G"))}

ColSets ==
    {RegCols, required_cols, {"name"}}
    \cup {RegCols \ {c} : c \in required_cols}

Rep(row, n) == [i \in 1..n |-> row]

PerfectRows == 50

\* perfect_df of the tests: constant score_ratio, price 0..49, playtime 100..149
PerfectDf ==
    Table(required_cols,
          [i \in 1..PerfectRows |->
              [c \in required_cols |->
                  CASE c = "score_ratio" -> Num(1, 2)
                    [] c = "price" -> Num(i - 1, 1)
                    [] OTHER -> Num(99 + i, 1)]])

RegTables ==
    {Project(Table(RegCols, Rep(r1, n1) \o Rep(r2, n2)), cs) :
        r1 \in RowKinds, n1 \in 0..MaxRows, r2 \in RowKinds, n2 \in 0..MaxTail, cs \in ColSets}
    \cup {PerfectDf}

LoaderIdle ==
    /\ file_exists = FALSE /\ source = NoSource /\ temp_df = None /\ df = None
    /\ pc = "idle" /\ exc = "" /\ reads = <<>>

\* one call of perform_linear_regression on a table of the caller
InitReg ==
    /\ LoaderIdle
    /\ reg_df \in RegTables
    /\ model_df = None
    /\ reg_pc = "schema"
    /\ reg_ret = ""
    /\ reg_exc = NoError
    /\ fit_started = FALSE
    /\ TagIdle
    /\ AppIdle

NextReg ==
    \/ SchemaCheck
    \/ Clean
    \/ SizeCheck
    \/ Fit
    \/ HandleFitError

SpecReg == InitReg /\ [][NextReg]_vars

(***************************************************************************)
(* process_tags_safely (app.py) and the literal syntax ast.literal_eval    *)
(* accepts: strings, integers, True/False/None, lists, dicts and sets.     *)
(* A list keeps the text of its elements and a dict the text of its keys.  *)
(***************************************************************************)
MaxTags == 2

Letters == "abcdefghijklmnopqrstuvwxyzABCDEFGHIJKLMNOPQRSTUVWXYZ_"
IsLetter(c) == \E i \in 1..Len(Letters) : Char(Letters, i) = c
IsName(s) == Len(s) > 0 /\ \A i \in 1..Len(s) : IsLetter(Char(s, i))

RECURSIVE Strip(_)
Strip(s) ==
    IF Len(s) > 0 /\ Char(s, 1) = " " THEN Strip(SubSeq(s, 2, Len(s)))
    ELSE IF Len(s) > 0 /\ Char(s, Len(s)) = " " THEN Strip(SubSeq(s, 1, Len(s) - 1))
    ELSE s

\* a string literal: the same quote at both ends, no quote or backslash between
IsQuoted(s) ==
    /\ Len(s) >= 2
    /\ Char(s, 1) \in {"'", "\""}
    /\ Char(s, Len(s)) = Char(s, 1)
    /\ \A i \in 2..(Len(s) - 1) : Char(s, i) \notin {Char(s, 1), "\\"}

\* a decimal integer literal: no leading zero unless all digits are zero
IsIntLiteral(s) ==
    LET u == IF Len(s) > 0 /\ Char(s, 1) \in {"-", "+"} THEN SubSeq(s, 2, Len(s)) ELSE s
    IN  AllDigits(u) /\ (Char(u, 1) # "0" \/ NatOf(u) = 0)

IntOfLiteral(s) ==
    IF Char(s, 1) = "-" THEN Num(-NatOf(SubSeq(s, 2, Len(s))), 1)
    ELSE IF Char(s, 1) = "+" THEN Num(NatOf(SubSeq(s, 2, Len(s))), 1)
    ELSE Num(NatOf(s), 1)

\* the pieces of s between the separators that are outside quotes and brackets
RECURSIVE SplitTop(_, _, _, _, _, _)
SplitTop(s, sep, i, depth, q, start) ==
    IF i > Len(s) THEN <<SubSeq(s, start, Len(s))>>
    ELSE LET c == Char(s, i)
         IN  IF q # "" THEN SplitTop(s, sep, i + 1, depth, IF c = q THEN "" ELSE q, start)
             ELSE IF c \in {"'", "\""} THEN SplitTop(s, sep, i + 1, depth, c, start)
             ELSE IF c \in {"[", "{", "("} THEN SplitTop(s, sep, i + 1, depth + 1, q, start)
             ELSE IF c \in {"]", "}", ")"} THEN SplitTop(s, sep, i + 1, depth - 1, q, start)
             ELSE IF c = sep /\ depth = 0
             THEN <<SubSeq(s, start, i - 1)>> \o SplitTop(s, sep, i + 1, 0, "", i + 1)
             ELSE SplitTop(s, sep, i + 1, depth, q, start)

Pieces(s, sep) == SplitTop(s, sep, 1, 0, "", 1)

\* the comma-separated elements of a display; one trailing comma is allowed
Elements(inner) ==
    IF Strip(inner) = "" THEN <<>>
    ELSE LET ps == Pieces(inner, ",")
         IN  IF Len(ps) > 1 /\ Strip(ps[Len(ps)]) = "" THEN SubSeq(ps, 1, Len(ps) - 1) ELSE ps

Evaluated(v, text) == [exc |-> "", val |-> v, src |-> text]
EvalError(e) == [exc |-> e, val |-> Null, src |-> ""]

Bool == Val("bool", 0, 1, "", <<>>)
SetOf(items) == Val("set", 0, 1, "", items)
Unhashable(v) == v.k \in {"list", "dict", "set"}
ItemText(r) == IF r.val.k = "str" THEN r.val.s ELSE r.src

\* the first exception of a sequence of evaluations; a syntax error anywhere
\* is raised by the parser before any node is converted
FirstError(rs) ==
    IF \E i \in 1..Len(rs) : rs[i].exc = "SyntaxError" THEN "SyntaxError"
    ELSE IF \E i \in 1..Len(rs) : rs[i].exc # ""
    THEN rs[CHOOSE i \in 1..Len(rs) : rs[i].exc # "" /\ \A j \in 1..(i - 1) : rs[j].exc = ""].exc
    ELSE ""

RECURSIVE Dedup(_)
Dedup(seq) ==
    IF Len(seq) = 0 THEN <<>>
    ELSE LET front == Dedup(SubSeq(seq, 1, Len(seq) - 1))
         IN  IF \E i \in 1..Len(front) : front[i] = seq[Len(seq)] THEN front
             ELSE Append(front, seq[Len(seq)])

\* ast.literal_eval(text)
RECURSIVE LiteralEval(_)
LiteralEval(text) ==
    LET s == Strip(text)
        inner == SubSeq(s, 2, Len(s) - 1)
    IN  IF IsQuoted(s) THEN Evaluated(Str(inner), s)
        ELSE IF IsIntLiteral(s) THEN Evaluated(IntOfLiteral(s), s)
        ELSE IF s = "None" THEN Evaluated(Null, s)
        ELSE IF s \in {"True", "False"} THEN Evaluated(Bool, s)
        ELSE IF IsName(s) THEN EvalError("ValueError")
        ELSE IF Len(s) >= 2 /\ Char(s, 1) = "[" /\ Char(s, Len(s)) = "]"
        THEN LET parts == Elements(inner)
                 rs == [i \in 1..Len(parts) |-> LiteralEval(parts[i])]
             IN  IF FirstError(rs) # "" THEN EvalError(FirstError(rs))
                 ELSE Evaluated(List([i \in 1..Len(parts) |-> ItemText(rs[i])]), s)
        ELSE IF Len(s) >= 2 /\ Char(s, 1) = "{" /\ Char(s, Len(s)) = "}"
        THEN LET parts == Elements(inner)
                 kv == [i \in 1..Len(parts) |-> Pieces(parts[i], ":")]
                 ks == [i \in 1..Len(parts) |-> LiteralEval(kv[i][1])]
                 vs == [i \in 1..Len(parts) |->
                          IF Len(kv[i]) = 2 THEN LiteralEval(kv[i][2]) ELSE Evaluated(Null, "")]
                 \* key, then value, then the hash of the key
                 es == [i \in 1..Len(parts) |->
                          IF ks[i].exc # "" THEN ks[i]
                          ELSE IF vs[i].exc # "" THEN vs[i]
                          ELSE IF Unhashable(ks[i].val) THEN EvalError("TypeError")
                          ELSE ks[i]]
             IN  IF \E i \in 1..Len(parts) : Len(kv[i]) > 2 THEN EvalError("SyntaxError")
                 ELSE IF \E i, j \in 1..Len(parts) : Len(kv[i]) # Len(kv[j])
                 THEN EvalError("SyntaxError")
                 ELSE IF FirstError(es) # "" THEN EvalError(FirstError(es))
                 ELSE IF Len(parts) > 0 /\ Len(kv[1]) = 1
                 THEN Evaluated(SetOf(Dedup([i \in 1..Len(parts) |-> ItemText(ks[i])])), s)
                 ELSE Evaluated(Dict(Dedup([i \in 1..Len(parts) |-> ItemText(ks[i])])), s)
        ELSE EvalError("SyntaxError")

\* exceptions the except clause of process_tags_safely catches
CaughtByTags(e) == e \in {"ValueError", "SyntaxError"}

\* process_tags_safely(tag_data): the exception raised ("" if none) and the value returned
ProcessTagsSafely(x) ==
    IF x.k = "dict" THEN [exc |-> "", val |-> List(x.items)]
    ELSE IF x.k = "list" THEN [exc |-> "", val |-> x]
    ELSE IF x.k = "str"
    THEN LET parsed == LiteralEval(x.s)
         IN  IF parsed.exc = ""
             THEN IF parsed.val.k = "dict" THEN [exc |-> "", val |-> List(parsed.val.items)]
                  ELSE IF parsed.val.k = "list" THEN [exc |-> "", val |-> parsed.val]
                  ELSE [exc |-> "", val |-> List(<<>>)]
             ELSE IF CaughtByTags(parsed.exc) THEN [exc |-> "", val |-> List(<<>>)]
             ELSE [exc |-> parsed.exc, val |-> Null]
    ELSE [exc |-> "", val |-> List(<<>>)]

RECURSIVE Join(_, _)
Join(parts, sep) ==
    IF Len(parts) = 0 THEN ""
    ELSE IF Len(parts) = 1 THEN parts[1]
    ELSE parts[1] \o sep \o Join(Tail(parts), sep)

\* str(list of tag names) and str(dict from tag names to vote counts) of a CSV export
ListText(items) == "[" \o Join([i \in 1..Len(items) |-> "'" \o items[i] \o "'"], ", ") \o "]"
DictText(keys) == "{" \o Join([i \in 1..Len(keys) |-> "'" \o keys[i] \o "': 100"], ", ") \o "}"

TagNames == {"Indie", "Action", "RPG"}
TagLists == SeqsUpTo(TagNames, MaxTags)
TagKeys == {ks \in TagLists : \A i, j \in 1..Len(ks) : ks[i] = ks[j] => i = j}

\* texts that are no list or dict literal
OtherTexts ==
    {"", "Indie", "Indie Game", "'Indie'", "7", "None", "True", "[1, 2", "['Indie', Action]",
     "{'Indie'}", "{'Indie': 1, 'Indie': 2}", "[1, 2]", "['Indie', ]", "{[1]: 2}",
     "{['Indie']: 100}", "{[1]}", "{'Indie': 1, 'RPG'}", "[[1, 2], 'RPG']"}

TagInputs ==
    {Dict(ks) : ks \in TagKeys}
    \cup {List(xs) : xs \in TagLists}
    \cup {Str(DictText(ks)) : ks \in TagKeys}
    \cup {Str(ListText(xs)) : xs \in TagLists}
    \cup {Str(s) : s \in OtherTexts}
    \cup {Null, NaN, Num(7, 1)}

ReturnTags(r) ==
    /\ tag_ret' = r.val
    /\ tag_exc' = r.exc
    /\ tag_pc' = IF r.exc = "" THEN "returned" ELSE "raised"
    /\ UNCHANGED tag_data
    /\ UNCHANGED <<loaderVars, regVars, appVars>>

\* if isinstance(tag_data, dict)
TagsOfMapping == tag_pc = "call" /\ tag_data.k = "dict" /\ ReturnTags(ProcessTagsSafely(tag_data))

\* elif isinstance(tag_data, list)
TagsOfList == tag_pc = "call" /\ tag_data.k = "list" /\ ReturnTags(ProcessTagsSafely(tag_data))

\* elif isinstance(tag_data, str)
TagsOfText == tag_pc = "call" /\ tag_data.k = "str" /\ ReturnTags(ProcessTagsSafely(tag_data))

\* else
TagsOfOther ==
    /\ tag_pc = "call"
    /\ tag_data.k \notin {"dict", "list", "str"}
    /\ ReturnTags(ProcessTagsSafely(tag_data))

\* one call of process_tags_safely
InitTags ==
    /\ LoaderIdle
    /\ RegIdle
    /\ AppIdle
    /\ tag_data \in TagInputs
    /\ tag_ret = Null
    /\ tag_pc = "call"
    /\ tag_exc = ""

NextTags ==
    \/ TagsOfMapping
    \/ TagsOfList
    \/ TagsOfText
    \/ TagsOfOther

SpecTags == InitTags /\ [][NextTags]_vars

(***************************************************************************)
(* main of app.py up to the regression call of the first tab: the cached   *)
(* load_and_clean_data, the year filter of the sidebar and the price       *)
(* filter of the tab. The loader runs on DATA_PATH inside                  *)
(* load_and_clean_data; its local name dataframe denotes the object        *)
(* prepare_dataframe returned, which is the loader's df.                   *)
(***************************************************************************)
DefaultMinYear == 2010
DefaultMaxYear == 2025

\* Series.dt.year, per cell: the year of a date, NaN for NaT
YearOf(x) == IF x.k = "date" THEN Num(x.n \div 10000, 1) ELSE NaN

\* (year >= lo) & (year <= hi): a comparison with NaN is False
InYearRange_notoutside(y, lo, hi) == ~(y.k = "num" /\ (y.n < lo * y.d \/ y.n > hi * y.d))

InYearRange(y, lo, hi) == y.k = "num" /\ y.n >= lo * y.d /\ y.n <= hi * y.d

\* (price >= lo) & (price <= hi)
InPriceRange(x, lo, hi) == x.k = "num" /\ Leq(lo, x) /\ Leq(x, hi)

\* the rows at the positions in keep, in their order
RECURSIVE Pick(_, _)
Pick(rows, keep) ==
    IF Len(rows) = 0 THEN <<>>
    ELSE LET front == Pick(SubSeq(rows, 1, Len(rows) - 1), keep)
         IN  IF Len(rows) \in keep THEN Append(front, rows[Len(rows)]) ELSE front

\* t[mask]: the rows of t at the positions the mask selects
Filter(t, keep) == Table(t.cols, Pick(t.rows, keep))

\* the years of the table that are not NaN
Years(t) == {t.rows[i]["year"].n : i \in {j \in RowsOf(t) : t.rows[j]["year"].k = "num"}}
MinYear(t) == IF Years(t) = {} THEN DefaultMinYear ELSE CHOOSE y \in Years(t) : \A z \in Years(t) : y <= z
MaxYear(t) == IF Years(t) = {} THEN DefaultMaxYear ELSE CHOOSE y \in Years(t) : \A z \in Years(t) : y >= z

\* positions of the price slider: its ends and its default upper end
PriceStops == {Num(0, 1), Num(60, 1), Num(100, 1)}

\* if not os.path.exists(DATA_PATH): return; else the loader is built and called
AppStart ==
    /\ app_pc = "start"
    /\ IF file_exists
       THEN app_pc' = "load" /\ pc' = "validate"
       ELSE app_pc' = "stopped" /\ pc' = pc
    /\ UNCHANGED <<file_exists, source, temp_df, df, exc, reads>>
    /\ UNCHANGED <<app_df, year_range, base_df, price_range, tab1_df>>
    /\ UNCHANGED <<regVars, tagVars>>

\* an exception of load_and_clean_data reaches the except clause of main
AppLoadFailed ==
    /\ app_pc = "load"
    /\ pc = "raised"
    /\ app_pc' = "error"
    /\ UNCHANGED <<app_df, year_range, base_df, price_range, tab1_df>>
    /\ UNCHANGED <<loaderVars, regVars, tagVars>>

\* lines 79-82: default columns on dataframe
AppDefaults ==
    /\ app_pc = "load"
    /\ pc = "returned"
    /\ LET withTags == IF "tags" \in df.cols THEN df
                       ELSE SetCol(df, "tags", [i \in RowsOf(df) |-> Dict(<<>>)])
       IN  df' = IF "genres" \in withTags.cols THEN withTags
                 ELSE SetCol(withTags, "genres", [i \in RowsOf(withTags) |-> List(<<>>)])
    /\ app_pc' = "tags_list"
    /\ UNCHANGED <<file_exists, source, temp_df, pc, exc, reads>>
    /\ UNCHANGED <<app_df, year_range, base_df, price_range, tab1_df>>
    /\ UNCHANGED <<regVars, tagVars>>

\* dataframe['tags_list'] = dataframe['tags'].apply(process_tags_safely)
AppTagsList ==
    /\ app_pc = "tags_list"
    /\ LET rs == [i \in RowsOf(df) |-> ProcessTagsSafely(df.rows[i]["tags"])]
       IN  IF \E i \in RowsOf(df) : rs[i].exc # ""
           THEN app_pc' = "error" /\ df' = df
           ELSE app_pc' = "year" /\ df' = SetCol(df, "tags_list", [i \in RowsOf(df) |-> rs[i].val])
    /\ UNCHANGED <<file_exists, source, temp_df, pc, exc, reads>>
    /\ UNCHANGED <<app_df, year_range, base_df, price_range, tab1_df>>
    /\ UNCHANGED <<regVars, tagVars>>

\* dataframe['year'] = dataframe['release_date'].dt.year
AppYear ==
    /\ app_pc = "year"
    /\ df' = SetCol(df, "year", [i \in RowsOf(df) |-> YearOf(df.rows[i]["release_date"])])
    /\ app_pc' = "cache"
    /\ UNCHANGED <<file_exists, source, temp_df, pc, exc, reads>>
    /\ UNCHANGED <<app_df, year_range, base_df, price_range, tab1_df>>
    /\ UNCHANGED <<regVars, tagVars>>

\* return dataframe; df = load_and_clean_data(): st.cache_data hands out a copy
AppCache ==
    /\ app_pc = "cache"
    /\ app_df' = df
    /\ app_pc' = "range"
    /\ UNCHANGED <<year_range, base_df, price_range, tab1_df>>
    /\ UNCHANGED <<loaderVars, regVars, tagVars>>

\* lines 98-109: the bounds of the slider and the range the user selects
AppYearRange ==
    /\ app_pc = "range"
    /\ LET min_year == MinYear(app_df)
           max_year == MaxYear(app_df)
       IN  IF min_year = max_year
           THEN year_range' = <<min_year, max_year>>
           ELSE \E lo \in min_year..max_year : \E hi \in lo..max_year : year_range' = <<lo, hi>>
    /\ app_pc' = "mask"
    /\ UNCHANGED <<app_df, base_df, price_range, tab1_df>>
    /\ UNCHANGED <<loaderVars, regVars, tagVars>>

\* mask = (df['year'] >= year_range[0]) & (df['year'] <= year_range[1]); base_df = df[mask].copy()
AppMask ==
    /\ app_pc = "mask"
    /\ base_df' = Filter(app_df, {i \in RowsOf(app_df) :
                                  InYearRange(app_df.rows[i]["year"], year_range[1], year_range[2])})
    /\ app_pc' = "tab1"
    /\ UNCHANGED <<app_df, year_range, price_range, tab1_df>>
    /\ UNCHANGED <<loaderVars, regVars, tagVars>>

\* lines 133-134: the price slider and tab1_df; base_df['price'] is outside the try block
AppPriceFilter ==
    /\ app_pc = "tab1"
    /\ \E lo \in PriceStops : \E hi \in {h \in PriceStops : Leq(lo, h)} :
          /\ price_range' = <<lo, hi>>
          /\ IF "price" \in base_df.cols
             THEN /\ tab1_df' = Filter(base_df, {i \in RowsOf(base_df) :
                                                InPriceRange(base_df.rows[i]["price"], lo, hi)})
                  /\ app_pc' = "kpi"
             ELSE /\ tab1_df' = tab1_df
                  /\ app_pc' = "crashed"
    /\ UNCHANGED <<app_df, year_range, base_df>>
    /\ UNCHANGED <<loaderVars, regVars, tagVars>>

\* lines 137-144: the KPIs read price, average_playtime_forever and score_ratio of a non-empty tab1_df
AppKpi ==
    /\ app_pc = "kpi"
    /\ app_pc' = IF NRows(tab1_df) > 0 /\ ~({"average_playtime_forever", "score_ratio"} \subseteq tab1_df.cols)
                 THEN "crashed" ELSE "regression"
    /\ UNCHANGED <<app_df, year_range, base_df, price_range, tab1_df>>
    /\ UNCHANGED <<loaderVars, regVars, tagVars>>

\* model_summary = SteamAnalytics.perform_linear_regression(tab1_df)
CallRegression ==
    /\ app_pc = "regression"
    /\ reg_df' = tab1_df
    /\ reg_pc' = "schema"
    /\ app_pc' = "report"
    /\ UNCHANGED <<model_df, reg_ret, reg_exc, fit_started>>
    /\ UNCHANGED <<app_df, year_range, base_df, price_range, tab1_df>>
    /\ UNCHANGED <<loaderVars, tagVars>>

\* st.code(model_summary, language='text')
AppReport ==
    /\ app_pc = "report"
    /\ reg_pc = "returned"
    /\ app_pc' = "tab2"
    /\ UNCHANGED <<app_df, year_range, base_df, price_range, tab1_df>>
    /\ UNCHANGED <<loaderVars, regVars, tagVars>>

\* records of data/games.json: dates, prices and playtimes that do or do not parse
AppRecordSet ==
    {BaseRecord,
     With(BaseRecord, "release_date", Str("invalid-date")),
     With(BaseRecord, "release_date", Absent),
     With(With(BaseRecord, "release_date", Str("2022-06-30")), "price", Num(80, 1)),
     With(BaseRecord, "price", Absent),
     With(BaseRecord, "average_playtime_forever", Absent),
     With(With(BaseRecord, "release_date", Null), "tags", Str("{'Action': 100}")),
     With(BaseRecord, "tags", List(<<"Indie">>)),
     With(BaseRecord, "tags", Str("['Indie']")),
     With(BaseRecord, "tags", Null)}

AppSources ==
    {Source("index", q) : q \in SeqsUpTo(AppRecordSet, MaxRecords)}
    \cup {Source("array", <<BaseRecord>>), Source("malformed", <<>>)}

\* one run of main on the content of data/games.json
InitApp ==
    /\ file_exists \in BOOLEAN
    /\ source \in IF file_exists THEN AppSources ELSE {NoSource}
    /\ temp_df = None
    /\ df = None
    /\ pc = "idle"
    /\ exc = ""
    /\ reads = <<>>
    /\ RegIdle
    /\ TagIdle
    /\ app_pc = "start"
    /\ app_df = None
    /\ year_range = NoRange
    /\ base_df = None
    /\ price_range = NoRange
    /\ tab1_df = None

\* with at most MaxRecords rows the sample-size check never lets the fit start
NextApp ==
    \/ AppStart
    \/ ValidateSource
    \/ IngestIndex
    \/ IngestFallback
    \/ Projection
    \/ ConvertDates
    \/ ConvertNumeric
    \/ NormalizeTags
    \/ DefaultGenres
    \/ FeatureEngineering
    \/ AppLoadFailed
    \/ AppDefaults
    \/ AppTagsList
    \/ AppYear
    \/ AppCache
    \/ AppYearRange
    \/ AppMask
    \/ AppPriceFilter
    \/ AppKpi
    \/ CallRegression
    \/ SchemaCheck
    \/ Clean
    \/ SizeCheck
    \/ AppReport

SpecApp == InitApp /\ [][NextApp]_vars

(***************************************************************************)
(* Properties of prepare_dataframe.                                        *)
(***************************************************************************)
Finished == pc \in {"returned", "raised"}
ColumnAbsent(c) == \A i \in 1..Len(source.recs) : source.recs[i][c] = Absent
Max1(x) == IF Leq(x, One) THEN One ELSE x

\* C1: for every existing source file with N raw records, mapping-shaped or
\* array-shaped, prepare_dataframe returns a table with exactly N rows,
\* whatever fields of the records are missing, null or wrongly typed.
C1_RowPreservation ==
    (file_exists /\ source.shape \in {"index", "array"} /\ Finished)
        => (pc = "returned" /\ NRows(df) = Len(source.recs))

\* No statement of the pipeline changes the number of rows: from the parse on,
\* the loader's table has one row per raw record.
RowsKeptAfterParse ==
    (pc \in {"dates", "numeric", "tags", "genres", "features", "returned"})
        => NRows(df) = Len(source.recs)

\* C2: in every row of the returned table total_reviews = positive + negative,
\* score_ratio = positive / max(positive + negative, 1) and 0 <= score_ratio <= 1,
\* for all coerced counts, negative and fractional ones included.
C2_ScoreRatio ==
    pc = "returned" =>
        \A i \in RowsOf(df) :
            LET row == df.rows[i]
            IN  /\ row["total_reviews"] = Add(row["positive"], row["negative"])
                /\ row["score_ratio"]
                     = Div(row["positive"], Max1(Add(row["positive"], row["negative"])))
                /\ Leq(Zero, row["score_ratio"]) /\ Leq(row["score_ratio"], One)

\* C7: when the path does not exist, prepare_dataframe raises FileNotFoundError
\* and no read_json call (index-oriented or fallback) has been made before it.
C7_MissingSourceFailsFast ==
    ~file_exists =>
        /\ reads = <<>>
        /\ pc \in {"validate", "raised"}
        /\ pc = "raised" => exc = "FileNotFoundError"

C7_Witness == ~file_exists /\ pc = "raised" /\ exc = "FileNotFoundError"

\* C8: in every row of the returned table tags is a mapping or a list, never
\* null, a scalar or a string, whatever shape the raw tags had and also when
\* no record carries tags.
C8_TagsShape ==
    pc = "returned" =>
        /\ "tags" \in df.cols
        /\ \A i \in RowsOf(df) : df.rows[i]["tags"].k \in {"dict", "list"}

C8_Witness ==
    /\ pc = "returned"
    /\ \E i \in RowsOf(df) : source.recs[i]["tags"].k = "str"
    /\ \E i \in RowsOf(df) : source.recs[i]["tags"].k \in {"null", "absent", "num"}

C8_WitnessOmitted == pc = "returned" /\ NRows(df) > 0 /\ ColumnAbsent("tags")

\* C9: in every row of the returned table genres is a list, never null or a
\* scalar, also when a record has genres null or a scalar.
C9_GenresShape ==
    pc = "returned" =>
        /\ "genres" \in df.cols
        /\ \A i \in RowsOf(df) : df.rows[i]["genres"].k = "list"

\* C10: every returned table has the columns price, positive, negative,
\* average_playtime_forever, total_reviews, score_ratio, genres and tags; a
\* numeric column no record carries is 0 in every row, genres an empty list,
\* tags an empty mapping.
C10_ColumnsPresent ==
    pc = "returned" =>
        /\ (cols_to_numeric \cup {"total_reviews", "score_ratio", "genres", "tags"})
               \subseteq df.cols
        /\ \A c \in cols_to_numeric :
               ColumnAbsent(c) => \A i \in RowsOf(df) : df.rows[i][c] = Zero
        /\ ColumnAbsent("genres") => \A i \in RowsOf(df) : df.rows[i]["genres"] = List(<<>>)
        /\ ColumnAbsent("tags") => \A i \in RowsOf(df) : df.rows[i]["tags"] = Dict(<<>>)

\* C11: for an existing, parseable source prepare_dataframe returns a table
\* without raising, whichever allow-listed fields are absent from all records
\* and whatever value a present field holds.
C11_NeverRaisesOnFields ==
    (file_exists /\ source.shape = "index" /\ Len(source.recs) > 0 /\ Finished)
        => pc = "returned"

\* C12: for an array-shaped source the failure of the index-oriented parse is
\* caught, the fallback parse runs, and a table with one row per list element
\* is returned.
C12_ArrayFallback ==
    (file_exists /\ source.shape = "array" /\ Finished)
        => /\ pc = "returned"
           /\ reads = <<"index", "columns">>
           /\ NRows(df) = Len(source.recs)

\* the number a raw value of the model stands for, 0 when it stands for none
ExpectedNumber(raw) ==
    CASE raw.k = "num" -> raw
      [] raw = Str("19.99") -> Num(1999, 100)
      [] raw = Str("-5.00") -> Num(-5, 1)
      [] OTHER -> Zero

\* C13: for each of price, positive, negative, average_playtime_forever present
\* in the source, every cell of the returned table is a number, never missing:
\* a raw value that parses as a number keeps its value ("-5.00" gives -5.0),
\* and null, a key the record lacks or non-numeric text gives 0.
C13_NumericCoercion ==
    pc = "returned" =>
        \A c \in cols_to_numeric :
            ~ColumnAbsent(c) =>
                /\ c \in df.cols
                /\ \A i \in RowsOf(df) :
                       /\ IsNum(df.rows[i][c])
                       /\ df.rows[i][c] = ExpectedNumber(source.recs[i][c])

C13_Witness ==
    /\ pc = "returned"
    /\ \E i \in RowsOf(df) :
           source.recs[i]["price"] = Str("-5.00") /\ df.rows[i]["price"] = Num(-5, 1)
    /\ \E i \in RowsOf(df) :
           source.recs[i]["price"].k \in {"null", "absent"} /\ df.rows[i]["price"] = Zero

C13_WitnessText ==
    /\ pc = "returned"
    /\ \E i \in RowsOf(df) :
           source.recs[i]["positive"] = Str("free") /\ df.rows[i]["positive"] = Zero

\* C17: when prepare_dataframe raises, at whatever step, the loader's df holds
\* what it held before the call (None on a fresh loader), never a partial table.
C17_AtomicFailure == pc = "raised" => df = None

(***************************************************************************)
(* Properties of process_tags_safely.                                      *)
(***************************************************************************)
TagsFinished == tag_pc \in {"returned", "raised"}

\* what the claimed contract gives for an input, from the literal the text denotes
ClaimedTags(x) ==
    IF x.k \in {"dict", "list"} THEN x
    ELSE IF x.k = "str" /\ \E ks \in TagKeys : x.s = DictText(ks)
    THEN List(CHOOSE ks \in TagKeys : x.s = DictText(ks))
    ELSE IF x.k = "str" /\ \E xs \in TagLists : x.s = ListText(xs)
    THEN List(CHOOSE xs \in TagLists : x.s = ListText(xs))
    ELSE IF x = Str("[1, 2]") THEN List(<<"1", "2">>)
    ELSE IF x = Str("['Indie', ]") THEN List(<<"Indie">>)
    ELSE IF x = Str("[[1, 2], 'RPG']") THEN List(<<"[1, 2]", "RPG">>)
    ELSE IF x = Str("{'Indie': 1, 'Indie': 2}") THEN List(<<"Indie">>)
    ELSE List(<<>>)

\* C15: process_tags_safely never raises and never returns null; a mapping and
\* a list are returned unchanged, a text gives the keys of the parsed mapping
\* or the parsed list and an empty list otherwise, any other input an empty list.
C15_TagNormalizer ==
    TagsFinished =>
        /\ tag_pc = "returned"
        /\ tag_ret # Null
        /\ tag_ret = ClaimedTags(tag_data)

\* Apart from the two differences (a mapping gives the list of its keys, a text
\* whose literal has an unhashable key or set element raises TypeError) the
\* contract holds.
TagNormalizerContract ==
    TagsFinished =>
        IF tag_data.s \in {"{[1]: 2}", "{['Indie']: 100}", "{[1]}"}
        THEN tag_pc = "raised" /\ tag_exc = "TypeError"
        ELSE /\ tag_pc = "returned"
             /\ tag_ret.k = "list"
             /\ tag_ret = IF tag_data.k = "dict" THEN List(tag_data.items) ELSE ClaimedTags(tag_data)

(***************************************************************************)
(* Properties of perform_linear_regression.                                *)
(***************************************************************************)
RegFinished == reg_pc \in {"returned", "raised"}

t_k(t, i, c) == t.rows[i][c].k

\* the input table has the three columns the regression needs
HasRequired == {"score_ratio", "price", "average_playtime_forever"} \subseteq reg_df.cols

\* rows of the input without a missing value in any of the three columns
CompleteRows(t) ==
    {i \in RowsOf(t) : \A c \in required_cols : ~IsMissing(t.rows[i][c])}

SchemaMarker == "Fehler"
SampleMarker == "Datensatz zu klein"
ComputationMarker == "Berechnungsfehler im OLS-Modell"

\* C3: with fewer than 30 rows left after listwise deletion the call returns
\* the sample-size message and the fit never starts; with 30 or more such rows
\* the fit is attempted; the count compared is the one after deletion.
C3_SampleSizeGuard ==
    HasRequired =>
        /\ Cardinality(CompleteRows(reg_df)) < MinSample =>
               /\ ~fit_started
               /\ RegFinished => (reg_pc = "returned" /\ Contains(reg_ret, SampleMarker))
        /\ Cardinality(CompleteRows(reg_df)) >= MinSample =>
               /\ RegFinished => (fit_started /\ ~Contains(reg_ret, SampleMarker))
               /\ reg_pc # "returned" \/ fit_started

C3_Witness ==
    /\ reg_pc = "returned"
    /\ HasRequired
    /\ NRows(reg_df) >= MinSample
    /\ Cardinality(CompleteRows(reg_df)) = MinSample - 1
    /\ Contains(reg_ret, SampleMarker)

C3_WitnessFit ==
    reg_pc = "returned" /\ HasRequired /\ Cardinality(CompleteRows(reg_df)) = MinSample /\ fit_started

\* C4: with one of the three columns absent the call returns the schema-error
\* message without raising, before cleaning, the sample-size check or any fit,
\* whatever the number of rows.
C4_SchemaCheckFirst ==
    ~HasRequired =>
        /\ reg_pc \in {"schema", "returned"}
        /\ model_df = None
        /\ ~fit_started
        /\ reg_pc = "returned" =>
               (Contains(reg_ret, SchemaMarker) /\ ~Contains(reg_ret, SampleMarker))

C4_Witness ==
    /\ reg_pc = "returned"
    /\ reg_df.cols \cap required_cols # {}
    /\ ~HasRequired
    /\ NRows(reg_df) >= MinSample
    /\ Contains(reg_ret, SchemaMarker)

C4_WitnessEmpty == reg_pc = "returned" /\ ~HasRequired /\ NRows(reg_df) = 0

\* C5: no call ends in an uncaught failure: a failure inside the try block is
\* returned as the computation-error text, and every call returns a text.
C5_NeverRaises ==
    /\ reg_pc # "raised"
    /\ reg_pc = "returned" \/ ENABLED NextReg
    /\ reg_pc = "returned" => Len(reg_ret) > 0
    /\ (reg_pc = "returned" /\ fit_started /\ FitError(model_df) # NoError)
           => reg_ret = ComputationErrorPrefix \o FitError(model_df).msg

C5_Witness ==
    /\ reg_pc = "returned"
    /\ fit_started
    /\ FitError(model_df).type = "MissingDataError"
    /\ Contains(reg_ret, ComputationMarker)

\* the outcome kinds of a finished call
IsSchemaError == ~HasRequired /\ reg_ret = SchemaErrorMsg
IsSampleSize == HasRequired /\ ~fit_started /\ reg_ret = SampleSizeMsg
IsComputationError ==
    fit_started /\ FitError(model_df) # NoError /\ reg_ret = ComputationErrorMsg(FitError(model_df))
IsSuccessReport == fit_started /\ FitError(model_df) = NoError /\ reg_ret = SummaryText

Count(b) == IF b THEN 1 ELSE 0

\* C6 as stated: every call ends in exactly one of the three kinds schema
\* error, sample-size message, success report, and a text with neither
\* 'Fehler' nor 'Datensatz zu klein' is a success report of a fitted model.
C6_ThreeOutcomes ==
    reg_pc = "returned" =>
        /\ Count(IsSchemaError) + Count(IsSampleSize) + Count(IsSuccessReport) = 1
        /\ (~Contains(reg_ret, SchemaMarker) /\ ~Contains(reg_ret, SampleMarker))
               => IsSuccessReport

\* C6 amended: every call ends in exactly one of four kinds (schema error,
\* sample-size message, computation error, success report), and a text with
\* none of 'Fehler', 'Datensatz zu klein', 'Berechnungsfehler im OLS-Modell'
\* is a success report of a fitted model.
C6_FourOutcomes ==
    /\ reg_pc # "raised"
    /\ reg_pc = "returned" =>
        /\ Count(IsSchemaError) + Count(IsSampleSize)
               + Count(IsComputationError) + Count(IsSuccessReport) = 1
        /\ (/\ ~Contains(reg_ret, SchemaMarker)
            /\ ~Contains(reg_ret, SampleMarker)
            /\ ~Contains(reg_ret, ComputationMarker))
               => IsSuccessReport

C6_Witness ==
    /\ reg_pc = "returned"
    /\ IsComputationError
    /\ ~Contains(reg_ret, SchemaMarker)
    /\ ~Contains(reg_ret, SampleMarker)

ReportMarker == "OLS Regression Results"

\* rows whose three required cells are finite numbers
FiniteRows(t) == {i \in RowsOf(t) : \A c \in required_cols : t.rows[i][c].k = "num"}

\* every required cell is a number, NaN or an infinity
NumericTable(t) ==
    \A i \in RowsOf(t) : \A c \in required_cols : t.rows[i][c].k \in {"num", "nan", "null", "inf"}

\* C18: for a table with at least 30 rows complete in the three required
\* columns the call returns a success report containing 'OLS Regression
\* Results', also for the 50 collinear rows with constant score_ratio.
C18_SuccessReport ==
    (/\ HasRequired
     /\ NumericTable(reg_df)
     /\ Cardinality(FiniteRows(reg_df)) >= MinSample
     /\ RegFinished)
        => (reg_pc = "returned" /\ Contains(reg_ret, ReportMarker))

\* The fit of a table whose rows that are not dropped are all finite succeeds,
\* the collinear test table included.
FiniteTablesFit ==
    (/\ HasRequired
     /\ \A i \in RowsOf(reg_df) : \A c \in required_cols : t_k(reg_df, i, c) \in {"num", "nan", "null"}
     /\ Cardinality(FiniteRows(reg_df)) >= MinSample
     /\ RegFinished)
        => (reg_pc = "returned" /\ Contains(reg_ret, ReportMarker))

PerfectDfReported == reg_pc = "returned" /\ reg_df = PerfectDf /\ Contains(reg_ret, ReportMarker)

\* the rows of t, restricted to the three columns, without NaN and without infinity
CleanFiniteRows(t) ==
    SelectSeq(Project(t, {"score_ratio", "price", "average_playtime_forever"}).rows,
              LAMBDA row : \A c \in {"score_ratio", "price", "average_playtime_forever"} :
                               row[c].k \notin {"nan", "null", "nat", "inf"})

\* C19: the rows that are fitted are exactly the input rows with neither a NaN
\* nor an infinite value in the three columns: such rows are removed before the
\* sample-size check and the fit, and a missing value elsewhere removes no row.
C19_ListwiseDeletion ==
    (HasRequired /\ reg_pc \in {"size", "fit", "except", "returned"})
        => model_df.rows = CleanFiniteRows(reg_df)

(***************************************************************************)
(* Properties of the date fallback and of main.                            *)
(***************************************************************************)
\* raw release_date values that are no calendar date
UnparseableDate(raw) ==
    \/ raw \in {Absent, Null}
    \/ raw.k = "str" /\ raw.s \in {"invalid-date", "2030-02-29"}

SomeUnparseableDate ==
    \E i \in 1..Len(source.recs) : UnparseableDate(source.recs[i]["release_date"])

\* C14: a release_date that cannot be parsed, or that a record lacks, becomes
\* NaT in the returned table, NaT differs from every parsed date, it does not
\* make prepare_dataframe fail, and the year of NaT is NaN without an error.
C14_DateFallback ==
    (/\ file_exists /\ source.shape = "index" /\ SomeUnparseableDate
     /\ ~ColumnAbsent("positive") /\ ~ColumnAbsent("negative")
     /\ Finished)
        => /\ pc = "returned"
           /\ \A i \in 1..Len(source.recs) :
                 UnparseableDate(source.recs[i]["release_date"])
                     => /\ df.rows[i]["release_date"].k = "nat"
                        /\ YearOf(df.rows[i]["release_date"]).k = "nan"
           /\ \A i \in RowsOf(df) : df.rows[i]["release_date"].k \in {"nat", "date"}

\* When at least one record has a release_date key the fallback is as claimed.
DateFallbackWithColumn ==
    (/\ file_exists /\ source.shape = "index" /\ SomeUnparseableDate
     /\ ~ColumnAbsent("release_date")
     /\ ~ColumnAbsent("positive") /\ ~ColumnAbsent("negative")
     /\ Finished)
        => /\ pc = "returned"
           /\ \A i \in 1..Len(source.recs) :
                 UnparseableDate(source.recs[i]["release_date"])
                     => /\ df.rows[i]["release_date"].k = "nat"
                        /\ YearOf(df.rows[i]["release_date"]).k = "nan"
           /\ \A i \in RowsOf(df) : df.rows[i]["release_date"].k \in {"nat", "date"}

\* C16: the table prepare_dataframe returned is never changed after it is
\* returned (the derived columns go to a table that is not the loader's), and
\* perform_linear_regression leaves its input table unchanged.
C16_ReadOnlyTables ==
    [][/\ pc = "returned" => df' = df
       /\ reg_pc \notin {"idle", "returned", "raised"} => reg_df' = reg_df]_vars

\* perform_linear_regression leaves its input unchanged in all of its outcomes
RegressionKeepsInput == [][reg_pc # "idle" => reg_df' = reg_df]_vars

\* sub holds rows of full, in their order
IsRowSubset(sub, full) ==
    /\ sub.cols = full.cols
    /\ \E keep \in SUBSET RowsOf(full) : sub.rows = Pick(full.rows, keep)

HasNaT(t) == \E i \in RowsOf(t) : t.rows[i]["release_date"].k = "nat"

\* C20: a row whose release_date is NaT has a missing year and is not in
\* base_df, whatever year range is selected; no such row is in a table passed
\* to perform_linear_regression, and that table holds rows of the loaded table.
C20_NaTRowsExcluded ==
    /\ app_df # None =>
          \A i \in RowsOf(app_df) :
              app_df.rows[i]["release_date"].k = "nat" => app_df.rows[i]["year"].k = "nan"
    /\ base_df # None => (~HasNaT(base_df) /\ IsRowSubset(base_df, app_df))
    /\ tab1_df # None => (~HasNaT(tab1_df) /\ IsRowSubset(tab1_df, app_df))
    /\ reg_df # None => (~HasNaT(reg_df) /\ IsRowSubset(reg_df, app_df))

\* a table with a NaT row and a dated row was loaded and the dated row was passed on
C20_Witness ==
    /\ reg_df # None
    /\ HasNaT(app_df)
    /\ NRows(reg_df) = 1
    /\ NRows(app_df) = 2
    /\ year_range = <<MinYear(app_df), MaxYear(app_df)>>

\* all dates of the loaded table are NaT: the default range 2010..2025 leaves no row
C20_WitnessAllNaT ==
    /\ reg_df # None
    /\ NRows(app_df) > 0
    /\ \A i \in RowsOf(app_df) : app_df.rows[i]["release_date"].k = "nat"
    /\ year_range = <<2010, 2025>>
    /\ NRows(reg_df) = 0

RawTagsOf(i) == source.recs[i]["tags"]

====
